---- MODULE Spec2Model ----
(***************************************************************************)
(* A model of the rpg text adventure (src/rpg): the world graph of rooms,  *)
(* doors and NPCs, its JSON persistence (toJSON / fromJSON, QuickSave /    *)
(* QuickLoad), door movement and the combat rules.                         *)
(*                                                                         *)
(* Objects live in heaps keyed by address, because the code distinguishes  *)
(* an instance from an equal copy: `heap` holds the Room instances and     *)
(* `doors` the Door instances.  NPCs are held by value inside the one npcs *)
(* list that owns them.  Only the objects reachable from Game.rooms and    *)
(* Game.player are kept.                                                   *)
(***************************************************************************)
EXTENDS Integers, Sequences, FiniteSets, TLC

VARIABLES
    rooms,    \* Game.rooms: the ordered dict room_id -> Room, as <<[key, room]>>
    heap,     \* Room instances: address -> [description, doors, npcs, room_id]
    doors,    \* Door instances: address -> [description, connected_room, opposite_room]
    player,   \* Game.player: [name, current_room, health, damage]
    file,     \* savedgames/quicksave.json
    pc,       \* where the program is: "menu", "combat", "won", "dead", "crashed", "api"
    enemy,    \* Game.combat's `enemy`: its position in the current room's npcs (0: none)
    attacks,  \* number of attack rounds (of direct attack or take_damage calls) so far
    buffs,    \* number of wizard buffs received so far
    hist      \* the run of consecutive uses of one door: [door, start, n]

vars == <<rooms, heap, doors, player, file, pc, enemy, attacks, buffs, hist>>

world == <<rooms, heap, doors, player>>

(***************************************************************************)
(* Bounds.                                                                 *)
(***************************************************************************)
MaxAttacks == 2
MaxBuffs == 1

\* Python's None, and id(None): no Room lives at this address.
None == 0

Range(s) == {s[i] : i \in DOMAIN s}

(***************************************************************************)
(* Object allocation.  A new Room gets an address no live object holds;    *)
(* Room.__init__ stores it as room_id.  Addresses are opaque, so the model *)
(* hands out the smallest free ones.                                       *)
(***************************************************************************)
RECURSIVE FreshAddrs(_, _)
FreshAddrs(used, n) ==
    IF n = 0 THEN <<>>
    ELSE LET a == CHOOSE c \in 1..(Cardinality(used) + 1) :
                      c \notin used /\ \A b \in 1..(c - 1) : b \in used
         IN  <<a>> \o FreshAddrs(used \cup {a}, n - 1)

(***************************************************************************)
(* The NPC variants (room.py).                                             *)
(***************************************************************************)
NPC(description) == [kind |-> "NPC", description |-> description]

Enemy(description, health, damage) ==
    [kind |-> "Enemy", description |-> description,
     health |-> health, damage |-> damage]

Wizard(description, bonus_damage, healing_power) ==
    [kind |-> "Wizard", description |-> description,
     bonus_damage |-> bonus_damage, healing_power |-> healing_power]

\* Enemy.validate_health letting a health of 0 through
validate_health_from_zero(value) == value >= 0

\* Enemy.validate_health: TRUE when the value passes, FALSE when it raises
validate_health(value) == value > 0

\* Enemy(description=..., health=..., damage=...): pydantic runs the field
\* validators; health has one, damage has none
NewEnemy(description, health, damage) ==
    IF validate_health(health)
    THEN [ok |-> TRUE, npc |-> Enemy(description, health, damage)]
    ELSE [ok |-> FALSE]

Room(description, room_id) ==
    [description |-> description, doors |-> <<>>, npcs |-> <<>>,
     room_id |-> room_id]

Door(description, connected_room, opposite_room) ==
    [description |-> description, connected_room |-> connected_room,
     opposite_room |-> opposite_room]

Player(name, current_room, health, damage) ==
    [name |-> name, current_room |-> current_room,
     health |-> health, damage |-> damage]

\* Combat.is_alive counting a combatant at health 0 among the living
is_alive_at_zero(c) == c.health >= 0

\* Combat.is_alive that calls everybody alive
is_alive_always(c) == TRUE

\* Combat.is_alive as the truth value of the health: dead at 0 only
is_alive_nonzero(c) == c.health # 0

\* Combat.is_alive
is_alive(c) == c.health > 0

\* Room.__eq__ is pydantic's: two rooms are equal when their fields are.
RoomEq(a, b) ==
    IF a = None \/ b = None THEN a = b ELSE heap[a] = heap[b]

(***************************************************************************)
(* Ordered dicts, as sequences of [key, ...] entries.                      *)
(***************************************************************************)
DictKeys(d) == {d[i].key : i \in DOMAIN d}

\* d[key] = room
DictPut(d, key, room) ==
    IF key \in DictKeys(d)
    THEN [i \in DOMAIN d |->
            IF d[i].key = key THEN [key |-> key, room |-> room] ELSE d[i]]
    ELSE Append(d, [key |-> key, room |-> room])

\* d.get(key)
DictGet(d, key) ==
    IF key \in DictKeys(d)
    THEN (CHOOSE e \in Range(d) : e.key = key).room
    ELSE None

(***************************************************************************)
(* Encoding.                                                               *)
(***************************************************************************)
NPCToJSON(npc) ==
    IF npc.kind = "Enemy"
    THEN [description |-> npc.description, health |-> npc.health,
          damage |-> npc.damage]
    ELSE IF npc.kind = "Wizard"
    THEN [description |-> npc.description,
          bonus_damage |-> npc.bonus_damage,
          healing_power |-> npc.healing_power]
    ELSE [description |-> npc.description]

\* Door.toJSON writes id(room), the address of the instance, not its room_id
DoorToJSON(ds, d) ==
    [description |-> ds[d].description,
     connected_room_id |-> ds[d].connected_room,
     opposite_room_id |-> ds[d].opposite_room]

RoomToJSON(hp, ds, a) ==
    [description |-> hp[a].description,
     room_id |-> hp[a].room_id,
     doors |-> [i \in DOMAIN hp[a].doors |-> DoorToJSON(ds, hp[a].doors[i])],
     npcs |-> [i \in DOMAIN hp[a].npcs |-> NPCToJSON(hp[a].npcs[i])]]

PlayerToJSON(hp, ds, p) ==
    [name |-> p.name,
     current_room |-> RoomToJSON(hp, ds, p.current_room),
     health |-> p.health,
     damage |-> p.damage]

GameToJSON(rs, hp, ds, p) ==
    [rooms |-> [i \in DOMAIN rs |->
                  [key |-> rs[i].key, value |-> RoomToJSON(hp, ds, rs[i].room)]],
     player |-> PlayerToJSON(hp, ds, p)]

\* json.dump then json.load: the keys of an object come back as strings
JsonDumpLoad(j) ==
    [rooms |-> [i \in DOMAIN j.rooms |->
                  [key |-> ToString(j.rooms[i].key), value |-> j.rooms[i].value]],
     player |-> j.player]

(***************************************************************************)
(* Decoding.  A result is [ok |-> TRUE, ...] or, when a key is missing     *)
(* (KeyError), [ok |-> FALSE, ...] with what had been built until then.    *)
(***************************************************************************)
\* a decoder that tells the variant by the keys of the snapshot and calls
\* Enemy.fromJSON or Wizard.fromJSON for it
NPCFromJSONVariants(json_data) ==
    IF "description" \notin DOMAIN json_data
    THEN [ok |-> FALSE]
    ELSE IF {"health", "damage"} \subseteq DOMAIN json_data
    THEN [ok |-> TRUE,
          npc |-> Enemy(json_data.description, json_data.health,
                        json_data.damage)]
    ELSE IF {"bonus_damage", "healing_power"} \subseteq DOMAIN json_data
    THEN [ok |-> TRUE,
          npc |-> Wizard(json_data.description, json_data.bonus_damage,
                         json_data.healing_power)]
    ELSE [ok |-> TRUE, npc |-> NPC(json_data.description)]

\* NPC.fromJSON
NPCFromJSON(json_data) ==
    IF "description" \in DOMAIN json_data
    THEN [ok |-> TRUE, npc |-> NPC(json_data.description)]
    ELSE [ok |-> FALSE]

\* Room.fromJSON forgetting the npcs as it forgets the doors
RoomFromJSONDropNpcs(json_data) ==
    IF {"description", "room_id", "npcs"} \subseteq DOMAIN json_data
    THEN [ok |-> TRUE,
          room |-> [description |-> json_data.description,
                    doors |-> <<>>,
                    npcs |-> <<>>,
                    room_id |-> json_data.room_id]]
    ELSE [ok |-> FALSE]

\* Room.fromJSON that makes a Door for every door of the snapshot and
\* leaves its endpoints to be resolved
RoomFromJSONKeepDoors(json_data) ==
    IF /\ {"description", "room_id", "npcs", "doors"} \subseteq DOMAIN json_data
       /\ \A i \in DOMAIN json_data.npcs : NPCFromJSON(json_data.npcs[i]).ok
    THEN [ok |-> TRUE,
          room |-> [description |-> json_data.description,
                    doors |-> [i \in DOMAIN json_data.doors |-> i],
                    npcs |-> [i \in DOMAIN json_data.npcs |->
                                NPCFromJSON(json_data.npcs[i]).npc],
                    room_id |-> json_data.room_id]]
    ELSE [ok |-> FALSE]

\* Room.fromJSON: every npc is rebuilt with NPC.fromJSON, the doors are not rebuilt
RoomFromJSON(json_data) ==
    IF /\ {"description", "room_id", "npcs"} \subseteq DOMAIN json_data
       /\ \A i \in DOMAIN json_data.npcs : NPCFromJSON(json_data.npcs[i]).ok
    THEN [ok |-> TRUE,
          room |-> [description |-> json_data.description,
                    doors |-> <<>>,
                    npcs |-> [i \in DOMAIN json_data.npcs |->
                                NPCFromJSON(json_data.npcs[i]).npc],
                    room_id |-> json_data.room_id]]
    ELSE [ok |-> FALSE]

\* Door.fromJSON(json_data, room_dict): an id the dict lacks resolves to None
DoorFromJSON(json_data, room_dict) ==
    IF {"description", "connected_room_id", "opposite_room_id"}
           \subseteq DOMAIN json_data
    THEN [ok |-> TRUE,
          door |-> Door(json_data.description,
                        DictGet(room_dict, json_data.connected_room_id),
                        DictGet(room_dict, json_data.opposite_room_id))]
    ELSE [ok |-> FALSE]

\* Player.fromJSON leaving health and damage to the defaults of the class
PlayerFromJSONDefaults(json_data, addr) ==
    IF /\ {"name", "current_room", "health", "damage"} \subseteq DOMAIN json_data
       /\ RoomFromJSON(json_data.current_room).ok
    THEN [ok |-> TRUE,
          player |-> Player(json_data.name, addr, 100, 20),
          room |-> RoomFromJSON(json_data.current_room).room]
    ELSE [ok |-> FALSE]

\* Player.fromJSON: the current room is decoded from the embedded snapshot
\* into a Room of its own, at address addr
PlayerFromJSON(json_data, addr) ==
    IF /\ {"name", "current_room", "health", "damage"} \subseteq DOMAIN json_data
       /\ RoomFromJSON(json_data.current_room).ok
    THEN [ok |-> TRUE,
          player |-> Player(json_data.name, addr, json_data.health,
                            json_data.damage),
          room |-> RoomFromJSON(json_data.current_room).room]
    ELSE [ok |-> FALSE]

\* Game.fromJSON, first loop: the dict after the first m rooms of rs, the
\* i-th decoded Room living at address addrs[i]
RECURSIVE DecodeRooms(_, _, _)
DecodeRooms(rs, addrs, m) ==
    IF m = 0 THEN <<>>
    ELSE DictPut(DecodeRooms(rs, addrs, m - 1),
                 RoomFromJSON(rs[m].value).room.room_id, addrs[m])

\* Game.fromJSON, second loop: it patches the Door objects found in the door
\* lists of the decoded rooms (Room.fromJSON leaves every list empty)
ResolveDoors(table, hp) ==
    [d \in UNION {Range(hp[table[i].room].doors) : i \in DOMAIN table} |->
        Door("", None, None)]

Min(S) == CHOOSE x \in S : \A y \in S : x <= y

\* Game.fromJSON that puts the player in the room-table entry carrying the
\* room id of the embedded snapshot, when there is one
GameFromJSONSharedRoom(json_data, used) ==
    IF "rooms" \notin DOMAIN json_data
    THEN [ok |-> FALSE, rooms |-> <<>>, heap |-> <<>>]
    ELSE
      LET rs == json_data.rooms
          n == Len(rs)
          bad == {i \in 1..n : ~RoomFromJSON(rs[i].value).ok}
          m == IF bad = {} THEN n ELSE Min(bad) - 1
          addrs == FreshAddrs(used, m + 1)
          table == DecodeRooms(rs, addrs, m)
          hp == [a \in {table[i].room : i \in DOMAIN table} |->
                   RoomFromJSON(
                       rs[CHOOSE i \in 1..m : addrs[i] = a].value).room]
          pl == IF "player" \in DOMAIN json_data
                THEN PlayerFromJSON(json_data.player, addrs[m + 1])
                ELSE [ok |-> FALSE]
      IN  IF bad # {} \/ ~pl.ok
          THEN [ok |-> FALSE, rooms |-> table, heap |-> hp]
          ELSE [ok |-> TRUE,
                rooms |-> table,
                heap |-> [a \in DOMAIN hp \cup {addrs[m + 1]} |->
                            IF a \in DOMAIN hp THEN hp[a] ELSE pl.room],
                doors |-> ResolveDoors(table, hp),
                player |-> [pl.player EXCEPT !.current_room =
                              IF pl.room.room_id \in DictKeys(table)
                              THEN DictGet(table, pl.room.room_id)
                              ELSE @]]

\* Game.fromJSON(json_data); `used` are the addresses of the live objects
GameFromJSON(json_data, used) ==
    IF "rooms" \notin DOMAIN json_data
    THEN [ok |-> FALSE, rooms |-> <<>>, heap |-> <<>>]
    ELSE
      LET rs == json_data.rooms
          n == Len(rs)
          bad == {i \in 1..n : ~RoomFromJSON(rs[i].value).ok}
          m == IF bad = {} THEN n ELSE Min(bad) - 1
          addrs == FreshAddrs(used, m + 1)
          table == DecodeRooms(rs, addrs, m)
          hp == [a \in {table[i].room : i \in DOMAIN table} |->
                   RoomFromJSON(
                       rs[CHOOSE i \in 1..m : addrs[i] = a].value).room]
          pl == IF "player" \in DOMAIN json_data
                THEN PlayerFromJSON(json_data.player, addrs[m + 1])
                ELSE [ok |-> FALSE]
      IN  IF bad # {} \/ ~pl.ok
          THEN [ok |-> FALSE, rooms |-> table, heap |-> hp]
          ELSE [ok |-> TRUE,
                rooms |-> table,
                heap |-> [a \in DOMAIN hp \cup {addrs[m + 1]} |->
                            IF a \in DOMAIN hp THEN hp[a] ELSE pl.room],
                doors |-> ResolveDoors(table, hp),
                player |-> pl.player]

(***************************************************************************)
(* Game.__init__: two rooms, two doors that both join them, five NPCs.     *)
(* NewRooms(a1, a2) is that world with its rooms at addresses a1 and a2.   *)
(***************************************************************************)
NewRooms(a1, a2) ==
    (a1 :> [Room("A dusty room full of old computers.", a1) EXCEPT
              !.doors = <<1, 2>>,
              !.npcs = <<NPC("A suspiciously happy looking orc"),
                         Enemy("A fierce goblin", 50, 15)>>])
    @@
    (a2 :> [Room("A dark room with dark doors.", a2) EXCEPT
              !.doors = <<1, 2>>,
              !.npcs = <<NPC("The kerstman"),
                         Enemy("A dangerous vampire", 60, 100),
                         Wizard("A wise old wizard", 10, 30)>>])

NewDoors(a1, a2) ==
    (1 :> Door("A mysterious red door.", a2, a1))
    @@
    (2 :> Door("A black door with a keypad.", a2, a1))

NewTable(a1, a2) == <<[key |-> a1, room |-> a1], [key |-> a2, room |-> a2]>>

NewPlayer(a1) == Player("Matthew", a1, 100, 20)

\* game.initial_room and game.second_room keep the rooms of __init__ alive
InitialRooms == {1, 2}

(***************************************************************************)
(* The save file.  It holds nothing, bytes that are no JSON, or a JSON     *)
(* object (as json.load returns it).                                       *)
(***************************************************************************)
Absent == [kind |-> "absent"]
Garbage == [kind |-> "garbage"]
Json(data) == [kind |-> "json", data |-> data]

Without(r, key) == [k \in DOMAIN r \ {key} |-> r[k]]

\* what an earlier session, whose rooms lived at 11 and 12, saved on entry
OldSave ==
    JsonDumpLoad(GameToJSON(NewTable(11, 12), NewRooms(11, 12),
                            NewDoors(11, 12), NewPlayer(11)))

\* OldSave with the first door of its first room pointing at a room id
\* that no room of the snapshot carries
DanglingSave ==
    [OldSave EXCEPT !.rooms[1].value.doors[1].connected_room_id = 99]

\* the files a session can find when it starts
PreviousFiles ==
    {Absent, Garbage, Json(<<>>),
     Json(DanglingSave),
     Json(Without(OldSave, "player")),
     Json(Without(OldSave, "rooms")),
     Json([OldSave EXCEPT !.rooms[2].value = Without(@, "npcs")]),
     Json([OldSave EXCEPT !.player = Without(@, "health")])}

\* Saver.quickload: the parsed file, or None
SaverQuickload(f) ==
    IF f.kind = "json" THEN [none |-> FALSE, data |-> f.data]
    ELSE [none |-> TRUE]

\* `if loaded_data:` an empty object is as false as None
Truthy(loaded) == ~loaded.none /\ DOMAIN loaded.data # {}

(***************************************************************************)
(* Game.main_loop: what follows a turn of the main menu.                   *)
(***************************************************************************)
VampireDefeated(rs, hp) ==
    \E i \in DOMAIN rs : \E j \in DOMAIN hp[rs[i].room].npcs :
        LET npc == hp[rs[i].room].npcs[j]
        IN  /\ npc.kind = "Enemy"
            /\ npc.description = "A dangerous vampire"
            /\ ~is_alive(npc)

MainLoop(rs, hp, p) ==
    IF VampireDefeated(rs, hp) THEN "won"
    ELSE IF is_alive(p) THEN "menu" ELSE "dead"

(***************************************************************************)
(* Doors.                                                                  *)
(***************************************************************************)
\* Door.interact with its two branches swapped
InteractRoomSwapped(d, current_room) ==
    IF RoomEq(current_room, doors[d].opposite_room)
    THEN doors[d].opposite_room
    ELSE doors[d].connected_room

\* Door.interact that only leads forward
InteractRoomForward(d, current_room) == doors[d].opposite_room

\* Door.interact: the room the player is sent to
InteractRoom(d, current_room) ==
    IF RoomEq(current_room, doors[d].opposite_room)
    THEN doors[d].connected_room
    ELSE doors[d].opposite_room

\* Player.change_room
ChangeRoom(new_room) == player' = [player EXCEPT !.current_room = new_room]

DoorInteract(d) == ChangeRoom(InteractRoom(d, player.current_room))

(***************************************************************************)
(* Combat.                                                                 *)
(***************************************************************************)
\* int(x * 0.8): Python's int truncates towards zero
IntTimes08(x) ==
    IF x >= 0 THEN (x * 4) \div 5 ELSE -(((-x) * 4) \div 5)

\* random.randint(0, damage)
AttackRangeFromZero(damage) == 0..damage

\* the values random.randint(int(damage * 0.8), damage) can return
AttackRange(damage) == IntTimes08(damage)..damage

\* random.randint's draw is an input of a combat round: a game session
\* explores both ends of the range, SpecAttack the whole of it
Draws(damage) == {IntTimes08(damage), damage} \cap AttackRange(damage)

\* Combat.take_damage that stops at health 0
TakeDamageClamped(c, damage) ==
    [c EXCEPT !.health = IF @ - damage < 0 THEN 0 ELSE @ - damage]

\* Combat.take_damage
TakeDamage(c, damage) == [c EXCEPT !.health = @ - damage]

\* Combat.attack by `attacker`, the draw being damage_dealt: the target after it
Attack(attacker, target, damage_dealt) ==
    IF is_alive(attacker) THEN TakeDamage(target, damage_dealt) ELSE target

\* Wizard.give_bonus with its two additions crossed
GiveBonusSwapped(wizard, p) ==
    [p EXCEPT !.health = @ + wizard.bonus_damage,
              !.damage = @ + wizard.healing_power]

\* Wizard.give_bonus
GiveBonus(wizard, p) ==
    [p EXCEPT !.health = @ + wizard.healing_power,
              !.damage = @ + wizard.bonus_damage]

\* a removal that drops the head of the list, whatever x is
ListRemoveHead(s, x) == Tail(s)

\* list.remove(x): the first element equal to x goes
ListRemove(s, x) ==
    LET k == Min({i \in DOMAIN s : s[i] = x})
    IN  [i \in 1..(Len(s) - 1) |-> IF i < k THEN s[i] ELSE s[i + 1]]

(***************************************************************************)
(* The game session: Game.__init__, then main_loop.                        *)
(***************************************************************************)
NoHist == [door |-> 0, start |-> None, n |-> 0]

Init ==
    /\ rooms = NewTable(1, 2)
    /\ heap = NewRooms(1, 2)
    /\ doors = NewDoors(1, 2)
    /\ player = NewPlayer(1)
    /\ file \in PreviousFiles
    /\ pc = "menu"
    /\ enemy = 0
    /\ attacks = 0
    /\ buffs = 0
    /\ hist = NoHist

\* main menu, choice 0
LookAround ==
    /\ pc = "menu"
    /\ pc' = MainLoop(rooms, heap, player)
    /\ UNCHANGED <<world, file, enemy, attacks, buffs, hist>>

\* main menu, a choice outside 0..4
InvalidChoice ==
    /\ pc = "menu"
    /\ pc' = MainLoop(rooms, heap, player)
    /\ UNCHANGED <<world, file, enemy, attacks, buffs, hist>>

\* Game.look_for_way_out testing only `choice < len(doors)`: a negative
\* choice indexes the door list from its end
LookForWayOutWrapping(choice) ==
    /\ pc = "menu"
    /\ LET ds == heap[player.current_room].doors
       IN  IF ds # <<>> /\ choice < Len(ds) /\ -Len(ds) <= choice
           THEN DoorInteract(ds[IF choice >= 0 THEN choice + 1
                                ELSE Len(ds) + choice + 1])
           ELSE UNCHANGED player
    /\ pc' = IF player'.current_room = None THEN "crashed"
             ELSE MainLoop(rooms, heap, player')
    /\ UNCHANGED <<rooms, heap, doors, file, enemy, attacks, buffs, hist>>

\* main menu, choice 1: Game.look_for_way_out, the door menu answering `choice`
LookForWayOut(choice) ==
    /\ pc = "menu"
    /\ LET ds == heap[player.current_room].doors
       IN  IF ds # <<>> /\ 0 <= choice /\ choice < Len(ds)
           THEN DoorInteract(ds[choice + 1])
           ELSE UNCHANGED player
    /\ pc' = IF player'.current_room = None THEN "crashed"
             ELSE MainLoop(rooms, heap, player')
    /\ UNCHANGED <<rooms, heap, doors, file, enemy, attacks, buffs, hist>>

\* main menu, choice 2: Game.look_for_company, the NPC menu answering `choice`
LookForCompany(choice) ==
    /\ pc = "menu"
    /\ LET npcs == heap[player.current_room].npcs
       IN  IF npcs # <<>> /\ 0 <= choice /\ choice < Len(npcs)
           THEN LET npc == npcs[choice + 1]
                IN  IF npc.kind = "Enemy"
                    THEN \* Game.combat(npc): the loop is entered or skipped
                         /\ IF is_alive(player) /\ is_alive(npc)
                            THEN pc' = "combat" /\ enemy' = choice + 1
                            ELSE pc' = MainLoop(rooms, heap, player)
                                 /\ enemy' = enemy
                         /\ UNCHANGED <<player, buffs>>
                    ELSE IF npc.kind = "Wizard"
                    THEN /\ buffs < MaxBuffs
                         /\ player' = GiveBonus(npc, player)
                         /\ buffs' = buffs + 1
                         /\ pc' = MainLoop(rooms, heap, player')
                         /\ enemy' = enemy
                    ELSE /\ pc' = MainLoop(rooms, heap, player)
                         /\ UNCHANGED <<player, buffs, enemy>>
           ELSE /\ pc' = MainLoop(rooms, heap, player)
                /\ UNCHANGED <<player, buffs, enemy>>
    /\ UNCHANGED <<rooms, heap, doors, file, attacks, hist>>

\* Game.combat, choice 0, with the enemy striking back whether or not the
\* player's hit left it alive
CombatRoundAlwaysCounter(dealt, counter) ==
    LET room == player.current_room
        hit == Attack(player, heap[room].npcs[enemy], dealt)
    IN  /\ player' = TakeDamage(player, counter)
        /\ IF is_alive(hit)
           THEN /\ heap' = [heap EXCEPT ![room].npcs[enemy] = hit]
                /\ IF is_alive(player')
                   THEN pc' = "combat" /\ enemy' = enemy
                   ELSE pc' = MainLoop(rooms, heap', player') /\ enemy' = 0
           ELSE /\ heap' = [heap EXCEPT ![room].npcs =
                               ListRemove([@ EXCEPT ![enemy] = hit], hit)]
                /\ pc' = MainLoop(rooms, heap', player')
                /\ enemy' = 0

\* Game.combat, choice 0, the player's draw being dealt and the enemy's counter
CombatRound(dealt, counter) ==
    LET room == player.current_room
        hit == Attack(player, heap[room].npcs[enemy], dealt)
    IN  IF is_alive(hit)
        THEN /\ player' = Attack(hit, player, counter)
             /\ heap' = [heap EXCEPT ![room].npcs[enemy] = hit]
             /\ IF is_alive(player')
                THEN pc' = "combat" /\ enemy' = enemy
                ELSE pc' = MainLoop(rooms, heap', player') /\ enemy' = 0
        ELSE /\ player' = player
             /\ heap' = [heap EXCEPT ![room].npcs =
                            ListRemove([@ EXCEPT ![enemy] = hit], hit)]
             /\ pc' = MainLoop(rooms, heap', player')
             /\ enemy' = 0

CombatAttack ==
    /\ pc = "combat"
    /\ attacks < MaxAttacks
    /\ attacks' = attacks + 1
    /\ \E dealt \in Draws(player.damage) :
         \E counter \in Draws(heap[player.current_room].npcs[enemy].damage) :
            CombatRound(dealt, counter)
    /\ UNCHANGED <<rooms, doors, file, buffs, hist>>

\* Game.combat, choice 1, with the enemy landing a parting blow of its full
\* damage on the fleeing player
CombatFleeParting ==
    /\ pc = "combat"
    /\ player' = TakeDamage(player, heap[player.current_room].npcs[enemy].damage)
    /\ pc' = MainLoop(rooms, heap, player')
    /\ enemy' = 0
    /\ UNCHANGED <<rooms, heap, doors, file, attacks, buffs, hist>>

\* Game.combat, choice 1
CombatFlee ==
    /\ pc = "combat"
    /\ pc' = MainLoop(rooms, heap, player)
    /\ enemy' = 0
    /\ UNCHANGED <<world, file, attacks, buffs, hist>>

\* Game.combat, any other choice
CombatInvalid ==
    /\ pc = "combat"
    /\ UNCHANGED vars

\* main menu, choice 3: Saver.quicksave
QuickSave ==
    /\ pc = "menu"
    /\ file' = Json(JsonDumpLoad(GameToJSON(rooms, heap, doors, player)))
    /\ pc' = MainLoop(rooms, heap, player)
    /\ UNCHANGED <<world, enemy, attacks, buffs, hist>>

\* a load that decodes into the live game: what was built stays on failure
LoadedGameInPlace(g) ==
    IF g.ok
    THEN [rooms |-> g.rooms, heap |-> g.heap, doors |-> g.doors,
          player |-> g.player]
    ELSE [rooms |-> g.rooms,
          heap |-> [a \in DOMAIN heap \cup DOMAIN g.heap |->
                      IF a \in DOMAIN g.heap THEN g.heap[a] ELSE heap[a]],
          doors |-> doors, player |-> player]

\* show_main_menu, choice 4: self.__dict__ after it, g being what
\* Game.fromJSON built (an exception leaves before the update)
LoadedGame(g) ==
    IF g.ok
    THEN [rooms |-> g.rooms, heap |-> g.heap, doors |-> g.doors,
          player |-> g.player]
    ELSE [rooms |-> rooms, heap |-> heap, doors |-> doors, player |-> player]

\* main menu, choice 4.  The world the load replaces is released, and the
\* loaded objects are named by the addresses free after that.
QuickLoad ==
    /\ pc = "menu"
    /\ LET loaded_data == SaverQuickload(file)
       IN  IF Truthy(loaded_data)
           THEN LET g == GameFromJSON(loaded_data.data, InitialRooms)
                IN  /\ rooms' = LoadedGame(g).rooms
                    /\ heap' = LoadedGame(g).heap
                    /\ doors' = LoadedGame(g).doors
                    /\ player' = LoadedGame(g).player
                    /\ pc' = IF g.ok THEN MainLoop(rooms', heap', player')
                             ELSE "crashed"
           ELSE /\ pc' = MainLoop(rooms, heap, player)
                /\ UNCHANGED world
    /\ UNCHANGED <<file, enemy, attacks, buffs, hist>>

Next ==
    \/ LookAround
    \/ InvalidChoice
    \/ \E choice \in -2..2 : LookForWayOut(choice)
    \/ \E choice \in -2..3 : LookForCompany(choice)
    \/ CombatAttack
    \/ CombatFlee
    \/ CombatInvalid
    \/ QuickSave
    \/ QuickLoad

Spec == Init /\ [][Next]_vars

(***************************************************************************)
(* Doors on their own, as the unit tests drive them: rooms and doors built *)
(* by their constructors, a player put in any room, Door.interact and      *)
(* Player.change_room called directly.                                     *)
(***************************************************************************)
NumRooms == 3
NumDoors == 2

\* the doors, in order, that were added to room a: those it is an endpoint of
DoorsOf(ds, a) ==
    SelectSeq([d \in 1..NumDoors |-> d],
              LAMBDA d : a \in {ds[d].connected_room, ds[d].opposite_room})

InitDoor ==
    /\ \E ends \in [1..NumDoors -> (1..NumRooms) \X (1..NumRooms)] :
         /\ doors = [d \in 1..NumDoors |->
                       Door("Test Door", ends[d][1], ends[d][2])]
         /\ heap = [a \in 1..NumRooms |->
                      [Room("Test Room", a) EXCEPT !.doors = DoorsOf(doors, a)]]
    /\ rooms = [a \in 1..NumRooms |-> [key |-> a, room |-> a]]
    /\ \E a \in 1..NumRooms : player = Player("Hero", a, 100, 20)
    /\ file = Absent
    /\ pc = "api"
    /\ enemy = 0
    /\ attacks = 0
    /\ buffs = 0
    /\ hist = NoHist

\* door.interact(player); hist follows the run of uses of one door
Interact(d) ==
    /\ pc = "api"
    /\ DoorInteract(d)
    /\ hist' = IF hist.door = d /\ hist.n = 1
               THEN [hist EXCEPT !.n = 2]
               ELSE [door |-> d, start |-> player.current_room, n |-> 1]
    /\ UNCHANGED <<rooms, heap, doors, file, pc, enemy, attacks, buffs>>

\* player.change_room(new_room)
PlayerChangeRoom(new_room) ==
    /\ pc = "api"
    /\ ChangeRoom(new_room)
    /\ hist' = NoHist
    /\ UNCHANGED <<rooms, heap, doors, file, pc, enemy, attacks, buffs>>

NextDoor ==
    \/ \E d \in DOMAIN doors : Interact(d)
    \/ \E a \in DOMAIN heap : PlayerChangeRoom(a)

SpecDoor == InitDoor /\ [][NextDoor]_vars

(***************************************************************************)
(* Combat.attack on its own, as the unit tests drive it: a player and an   *)
(* enemy built by their constructors, each attacking the other.            *)
(***************************************************************************)
MaxDamage == 5
MaxHealth == 3

InitAttack ==
    /\ \E h \in 1..MaxHealth, d \in -1..MaxDamage :
         heap = (1 :> [Room("Room 1", 1) EXCEPT
                         !.npcs = <<Enemy("Goblin", h, d)>>])
    /\ \E h \in 0..MaxHealth, d \in -1..MaxDamage :
         player = Player("Hero", 1, h, d)
    /\ rooms = <<[key |-> 1, room |-> 1]>>
    /\ doors = <<>>
    /\ file = Absent
    /\ pc = "api"
    /\ enemy = 1
    /\ attacks = 0
    /\ buffs = 0
    /\ hist = NoHist

\* player.attack(enemy): random.randint raises ValueError on an empty range
PlayerAttack ==
    /\ pc = "api"
    /\ attacks < MaxAttacks
    /\ attacks' = attacks + 1
    /\ IF ~is_alive(player)
       THEN pc' = pc /\ heap' = heap
       ELSE IF AttackRange(player.damage) = {}
       THEN pc' = "crashed" /\ heap' = heap
       ELSE /\ pc' = pc
            /\ \E damage_dealt \in AttackRange(player.damage) :
                 heap' = [heap EXCEPT ![player.current_room].npcs[enemy] =
                            Attack(player, @, damage_dealt)]
    /\ UNCHANGED <<rooms, doors, player, file, enemy, buffs, hist>>

\* enemy.attack(player)
EnemyAttack ==
    /\ pc = "api"
    /\ attacks < MaxAttacks
    /\ attacks' = attacks + 1
    /\ LET e == heap[player.current_room].npcs[enemy]
       IN  IF ~is_alive(e)
           THEN pc' = pc /\ player' = player
           ELSE IF AttackRange(e.damage) = {}
           THEN pc' = "crashed" /\ player' = player
           ELSE /\ pc' = pc
                /\ \E damage_dealt \in AttackRange(e.damage) :
                     player' = Attack(e, player, damage_dealt)
    /\ UNCHANGED <<rooms, heap, doors, file, enemy, buffs, hist>>

NextAttack ==
    \/ PlayerAttack
    \/ EnemyAttack

SpecAttack == InitAttack /\ [][NextAttack]_vars

(***************************************************************************)
(* Combat.take_damage on its own, as the unit tests call it on a player    *)
(* and on an enemy.                                                        *)
(***************************************************************************)
InitTakeDamage ==
    /\ \E h \in 1..MaxHealth :
         heap = (1 :> [Room("Test Room", 1) EXCEPT
                         !.npcs = <<Enemy("Goblin", h, 15)>>])
    /\ \E h \in 0..MaxHealth : player = Player("Hero", 1, h, 20)
    /\ rooms = <<[key |-> 1, room |-> 1]>>
    /\ doors = <<>>
    /\ file = Absent
    /\ pc = "api"
    /\ enemy = 1
    /\ attacks = 0
    /\ buffs = 0
    /\ hist = NoHist

\* player.take_damage(damage)
PlayerTakeDamage(damage) ==
    /\ pc = "api"
    /\ attacks < MaxAttacks
    /\ attacks' = attacks + 1
    /\ player' = TakeDamage(player, damage)
    /\ UNCHANGED <<rooms, heap, doors, file, pc, enemy, buffs, hist>>

\* enemy.take_damage(damage)
EnemyTakeDamage(damage) ==
    /\ pc = "api"
    /\ attacks < MaxAttacks
    /\ attacks' = attacks + 1
    /\ heap' = [heap EXCEPT ![player.current_room].npcs[enemy] =
                  TakeDamage(@, damage)]
    /\ UNCHANGED <<rooms, doors, player, file, pc, enemy, buffs, hist>>

NextTakeDamage ==
    \/ \E damage \in -1..MaxDamage : PlayerTakeDamage(damage)
    \/ \E damage \in -1..MaxDamage : EnemyTakeDamage(damage)

SpecTakeDamage == InitTakeDamage /\ [][NextTakeDamage]_vars

(***************************************************************************)
(* Wizard.give_bonus on its own, as the integration tests set it up: an    *)
(* enemy in the player's room, a wizard in the next, give_bonus called     *)
(* directly, any number of times.                                          *)
(***************************************************************************)
MaxBonuses == 3

InitWizard ==
    /\ \E bonus_damage \in -1..MaxDamage, healing_power \in -1..MaxHealth :
         heap = (1 :> [Room("Room 1", 1) EXCEPT
                         !.npcs = <<Enemy("Goblin", 50, 10)>>])
                @@
                (2 :> [Room("Room 2", 2) EXCEPT
                         !.npcs = <<Wizard("Old Wizard", bonus_damage,
                                           healing_power)>>])
    /\ player = Player("Hero", 1, 100, 20)
    /\ rooms = <<[key |-> 1, room |-> 1], [key |-> 2, room |-> 2]>>
    /\ doors = <<>>
    /\ file = Absent
    /\ pc = "api"
    /\ enemy = 0
    /\ attacks = 0
    /\ buffs = 0
    /\ hist = NoHist

\* wizard.give_bonus(player), the wizard being the first NPC of room a
WizardGiveBonus(a) ==
    /\ pc = "api"
    /\ heap[a].npcs # <<>>
    /\ heap[a].npcs[1].kind = "Wizard"
    /\ buffs < MaxBonuses
    /\ buffs' = buffs + 1
    /\ player' = GiveBonus(heap[a].npcs[1], player)
    /\ UNCHANGED <<rooms, heap, doors, file, pc, enemy, attacks, hist>>

NextWizard == \E a \in DOMAIN heap : WizardGiveBonus(a)

SpecWizard == InitWizard /\ [][NextWizard]_vars

(***************************************************************************)
(* Enemy construction on its own: a room that enemies are built for and    *)
(* added to, with any health and damage.  A ValidationError ends the run.  *)
(***************************************************************************)
MaxNpcs == 2

InitEnemy ==
    /\ heap = (1 :> Room("Test Room", 1))
    /\ player = Player("Hero", 1, 100, 20)
    /\ rooms = <<[key |-> 1, room |-> 1]>>
    /\ doors = <<>>
    /\ file = Absent
    /\ pc = "api"
    /\ enemy = 0
    /\ attacks = 0
    /\ buffs = 0
    /\ hist = NoHist

\* room.add_npc(Enemy(description="Goblin", health=health, damage=damage))
AddEnemy(health, damage) ==
    /\ pc = "api"
    /\ Len(heap[1].npcs) < MaxNpcs
    /\ LET built == NewEnemy("Goblin", health, damage)
       IN  IF built.ok
           THEN /\ heap' = [heap EXCEPT ![1].npcs = Append(@, built.npc)]
                /\ pc' = pc
           ELSE /\ heap' = heap
                /\ pc' = "crashed"
    /\ UNCHANGED <<rooms, doors, player, file, enemy, attacks, buffs, hist>>

NextEnemy ==
    \E health \in -1..MaxHealth, damage \in -1..MaxDamage :
        AddEnemy(health, damage)

SpecEnemy == InitEnemy /\ [][NextEnemy]_vars

(***************************************************************************)
(* One fight to the end, as the full-game test runs it: the player of      *)
(* Game.__init__ (health 100, damage 20) has picked the goblin (health 50, *)
(* damage 15) and answers every prompt of Game.combat with 0.  Every draw  *)
(* random.randint can return is explored.  The prompt is answered each     *)
(* time it is shown, hence the fairness condition.                         *)
(***************************************************************************)
MaxRounds == 14

InitCombat ==
    /\ rooms = NewTable(1, 2)
    /\ heap = NewRooms(1, 2)
    /\ doors = NewDoors(1, 2)
    /\ player = NewPlayer(1)
    /\ file = Absent
    /\ pc = "combat"
    /\ enemy = 2
    /\ attacks = 0
    /\ buffs = 0
    /\ hist = NoHist

\* Game.combat, choice 0, with any draw of the two ranges
CombatAttackAnyDraw ==
    /\ pc = "combat"
    /\ attacks < MaxRounds
    /\ attacks' = attacks + 1
    /\ \E dealt \in AttackRange(player.damage) :
         \E counter \in AttackRange(heap[player.current_room].npcs[enemy].damage) :
            CombatRound(dealt, counter)
    /\ UNCHANGED <<rooms, doors, file, buffs, hist>>

NextCombat == CombatAttackAnyDraw

SpecCombat == InitCombat /\ [][NextCombat]_vars /\ WF_vars(NextCombat)

(***************************************************************************)
(* The attack loop of the full-game test: `while enemy.is_alive() and      *)
(* player.is_alive(): player.attack(enemy); if enemy.is_alive():           *)
(* enemy.attack(player)`, for the test's Player(150, 30) against           *)
(* Enemy(100, 25) and for every pair of small combatants.  The enemy is    *)
(* not removed from its room here.                                         *)
(***************************************************************************)
\* one pass of the loop body with the enemy striking back even when the
\* player's blow has killed it
LoopBodyAlwaysCounter(p, e, dealt, counter) ==
    LET hit == Attack(p, e, dealt)
    IN  [player |-> TakeDamage(p, counter), enemy |-> hit]

\* one pass of the loop body: the player and the enemy after it
LoopBody(p, e, dealt, counter) ==
    LET hit == Attack(p, e, dealt)
    IN  [player |-> IF is_alive(hit) THEN Attack(hit, p, counter) ELSE p,
         enemy |-> hit]

InitLoop ==
    /\ \E stats \in {<<150, 30, 100, 25>>}
                    \cup ((1..MaxHealth) \X (0..MaxDamage)
                          \X (1..MaxHealth) \X (0..MaxDamage)) :
         /\ player = Player("Hero", 1, stats[1], stats[2])
         /\ heap = (1 :> [Room("Start Room", 1) EXCEPT
                            !.npcs = <<Enemy("Dragon", stats[3], stats[4])>>])
    /\ rooms = <<[key |-> 1, room |-> 1]>>
    /\ doors = <<>>
    /\ file = Absent
    /\ pc = "api"
    /\ enemy = 1
    /\ attacks = 0
    /\ buffs = 0
    /\ hist = NoHist

\* the loop condition holds and the body runs once
LoopRound ==
    /\ pc = "api"
    /\ LET e == heap[player.current_room].npcs[enemy]
       IN  /\ is_alive(e)
           /\ is_alive(player)
           /\ \E dealt \in AttackRange(player.damage) :
                \E counter \in AttackRange(e.damage) :
                   LET after == LoopBody(player, e, dealt, counter)
                   IN  /\ player' = after.player
                       /\ heap' = [heap EXCEPT
                                     ![player.current_room].npcs[enemy] =
                                        after.enemy]
    /\ UNCHANGED <<rooms, doors, file, pc, enemy, attacks, buffs, hist>>

NextLoop == LoopRound

SpecLoop == InitLoop /\ [][NextLoop]_vars

(***************************************************************************)
(* Properties of the save / load round trip.                               *)
(***************************************************************************)
\* the game Game.fromJSON builds from what QuickSave writes of the live
\* game, its objects allocated beside the live ones
RoundTrip ==
    GameFromJSON(JsonDumpLoad(GameToJSON(rooms, heap, doors, player)),
                 InitialRooms \cup DOMAIN heap)

\* the game a QuickLoad makes of the save file
FromFile == GameFromJSON(file.data, InitialRooms)

\* the live world is the one QuickLoad made of the save file
LoadedFromFile ==
    /\ file.kind = "json"
    /\ DOMAIN file.data # {}
    /\ FromFile.ok
    /\ rooms = FromFile.rooms
    /\ heap = FromFile.heap
    /\ doors = FromFile.doors
    /\ player = FromFile.player

\* the multiset of the elements of the sequence s
Bag(s) ==
    [v \in Range(s) |-> Cardinality({i \in DOMAIN s : s[i] = v})]

Descriptions(npcs) == [i \in DOMAIN npcs |-> npcs[i].description]

RoomIdOf(hp, a) == IF a = None THEN None ELSE hp[a].room_id

\* the (connected_room id, opposite_room id) pairs of the doors of room a
DoorPairs(hp, ds, a) ==
    [i \in DOMAIN hp[a].doors |->
        <<RoomIdOf(hp, ds[hp[a].doors[i]].connected_room),
          RoomIdOf(hp, ds[hp[a].doors[i]].opposite_room)>>]

\* C1: after toJSON then fromJSON every room has the same sequence of doors,
\* each with the same (connected_room id, opposite_room id) pair
C1_DoorsRoundTrip ==
    LET g == RoundTrip
    IN  /\ g.ok
        /\ \A k \in DictKeys(rooms) :
             /\ k \in DictKeys(g.rooms)
             /\ DoorPairs(g.heap, g.doors, DictGet(g.rooms, k))
                  = DoorPairs(heap, doors, DictGet(rooms, k))

\* C2: toJSON then fromJSON keeps the set of room ids of the room table and,
\* room by room, the multiset of the NPC descriptions
C2_RoomIdsAndNpcsRoundTrip ==
    LET g == RoundTrip
    IN  /\ g.ok
        /\ DictKeys(g.rooms) = DictKeys(rooms)
        /\ \A k \in DictKeys(rooms) :
             Bag(Descriptions(g.heap[DictGet(g.rooms, k)].npcs))
               = Bag(Descriptions(heap[DictGet(rooms, k)].npcs))

\* a game that fought the goblin down, saved and loaded: the loaded table
\* has the rooms of the file, one of them left with a single NPC
C2_Witness ==
    /\ pc = "menu"
    /\ LoadedFromFile
    /\ DictKeys(rooms) = {1, 2}
    /\ \E i \in DOMAIN file.data.rooms :
         /\ Len(file.data.rooms[i].value.npcs) = 1
         /\ Len(heap[rooms[i].room].npcs) = 1

\* C3: after toJSON then fromJSON every NPC keeps its variant and its stats:
\* an Enemy is an Enemy with the same health and damage, a Wizard a Wizard
\* with the same bonus_damage and healing_power
C3_NpcVariantsRoundTrip ==
    LET g == RoundTrip
    IN  /\ g.ok
        /\ \A k \in DictKeys(rooms) :
             /\ k \in DictKeys(g.rooms)
             /\ Bag(g.heap[DictGet(g.rooms, k)].npcs)
                  = Bag(heap[DictGet(rooms, k)].npcs)

\* C4: after toJSON then fromJSON the player has the same name, health and
\* damage, and a current room with the room id of the room they were in
C4_PlayerRoundTrip ==
    LET g == RoundTrip
    IN  /\ g.ok
        /\ g.player.name = player.name
        /\ g.player.health = player.health
        /\ g.player.damage = player.damage
        /\ g.heap[g.player.current_room].room_id
             = heap[player.current_room].room_id

\* a buffed player who walked to the second room, saved and loaded
C4_Witness ==
    /\ pc = "menu"
    /\ LoadedFromFile
    /\ player.health = 130
    /\ player.damage = 30
    /\ heap[player.current_room].room_id = 2
    /\ file.data.player.current_room.room_id = 2

\* two doors of room a that both join it to one other room
TwinDoors(hp, ds, a) ==
    {<<i, j>> \in (DOMAIN hp[a].doors) \X (DOMAIN hp[a].doors) :
        /\ i < j
        /\ hp[a].doors[i] # hp[a].doors[j]
        /\ {ds[hp[a].doors[i]].connected_room, ds[hp[a].doors[i]].opposite_room}
             = {ds[hp[a].doors[j]].connected_room,
                ds[hp[a].doors[j]].opposite_room}}

\* C5: a room with two doors to the same second room has, after toJSON then
\* fromJSON, two distinct Door instances that point at the same Room
\* instance of the decoded room table
C5_SharedTargetDoors ==
    LET g == RoundTrip
    IN  /\ g.ok
        /\ \A k \in DictKeys(rooms) :
             \A ij \in TwinDoors(heap, doors, DictGet(rooms, k)) :
                LET ds == g.heap[DictGet(g.rooms, k)].doors
                IN  /\ ij[1] \in DOMAIN ds
                    /\ ij[2] \in DOMAIN ds
                    /\ ds[ij[1]] # ds[ij[2]]
                    /\ g.doors[ds[ij[1]]].connected_room
                         = g.doors[ds[ij[2]]].connected_room
                    /\ g.doors[ds[ij[1]]].connected_room
                         \in {g.rooms[i].room : i \in DOMAIN g.rooms}

\* the room ids a snapshot's room table carries
SnapshotIds(data) ==
    {data.rooms[i].value.room_id :
        i \in {j \in DOMAIN data.rooms :
                 "room_id" \in DOMAIN data.rooms[j].value}}

\* some door of the snapshot names a room id that no room of it carries
HasDanglingDoor(data) ==
    /\ "rooms" \in DOMAIN data
    /\ \E i \in DOMAIN data.rooms :
         /\ "doors" \in DOMAIN data.rooms[i].value
         /\ \E j \in DOMAIN data.rooms[i].value.doors :
              LET door == data.rooms[i].value.doors[j]
              IN  \/ door.connected_room_id \notin SnapshotIds(data)
                  \/ door.opposite_room_id \notin SnapshotIds(data)

\* C6: decoding a snapshot with a door whose connected_room_id or
\* opposite_room_id is no room id of the snapshot fails: no game runs on a
\* world decoded from it, and no door ever has None for an endpoint
C6_DanglingRejected ==
    /\ (file.kind = "json" /\ HasDanglingDoor(file.data)) => ~LoadedFromFile
    /\ \A d \in DOMAIN doors :
          doors[d].connected_room # None /\ doors[d].opposite_room # None

\* the save file cannot be loaded: it is missing, no JSON, an empty object,
\* or lacks a key that Game.fromJSON reads
LoadFails ==
    \/ file.kind # "json"
    \/ DOMAIN file.data = {}
    \/ ~FromFile.ok

\* C7: a QuickLoad that fails leaves the room table, the rooms, the doors
\* and the player as they were
C7_FailedLoadKeepsWorld ==
    [][(QuickLoad /\ LoadFails) => UNCHANGED world]_vars

\* a load that decoded the first room of the file and then met a room
\* without npcs: the session is over, the world of __init__ still in place
C7_Witness ==
    /\ pc = "crashed"
    /\ file.kind = "json"
    /\ "rooms" \in DOMAIN file.data
    /\ RoomFromJSON(file.data.rooms[1].value).ok
    /\ ~RoomFromJSON(file.data.rooms[2].value).ok
    /\ DictKeys(rooms) = {1, 2}
    /\ DOMAIN heap = {1, 2}

(***************************************************************************)
(* Properties of Door.interact.                                            *)
(***************************************************************************)
Endpoints(d) == {doors[d].connected_room, doors[d].opposite_room}

\* C8: Door.interact sends a player who is in the door's opposite_room to
\* its connected_room and any other player, also one in neither endpoint,
\* to its opposite_room; the player ends in an endpoint of the door and the
\* door is left as it was
C8_InteractByPosition ==
    [][\A d \in DOMAIN doors :
          Interact(d) =>
             /\ player'.current_room =
                   IF player.current_room = doors[d].opposite_room
                   THEN doors[d].connected_room
                   ELSE doors[d].opposite_room
             /\ player'.current_room \in Endpoints(d)
             /\ doors' = doors
             /\ heap' = heap]_vars

\* a player who took a door from a room that is neither of its endpoints
C8_Witness ==
    /\ hist.n = 1
    /\ hist.start \notin Endpoints(hist.door)
    /\ player.current_room = doors[hist.door].opposite_room

\* C9: a player in an endpoint of a door who takes that door twice in a row
\* is back in the room they started in
C9_DoorTwiceReturns ==
    (hist.n = 2 /\ hist.start \in Endpoints(hist.door))
        => player.current_room = hist.start

\* there and back through a door between two different rooms
C9_Witness ==
    /\ hist.n = 2
    /\ hist.start \in Endpoints(hist.door)
    /\ doors[hist.door].connected_room # doors[hist.door].opposite_room
    /\ player.current_room = hist.start

(***************************************************************************)
(* Properties of Combat.attack.                                            *)
(***************************************************************************)
\* floor(0.8 * damage)
Floor08(damage) == (4 * damage) \div 5

\* a hit by an attacker of that damage took `before` to `after`
HitWithinRange(damage, before, after) ==
    /\ pc' # "crashed"
    /\ Floor08(damage) <= before - after
    /\ before - after <= damage
    /\ damage >= 2 => after < before

\* C10: one attack by an alive attacker of damage >= 1 deals between
\* floor(0.8 * damage) and damage, the draw never faults, and from damage 2
\* on the target's health goes down
C10_DamageWithinRange ==
    [][LET e == heap[player.current_room].npcs[enemy]
       IN  /\ (PlayerAttack /\ is_alive(player) /\ player.damage >= 1) =>
                HitWithinRange(player.damage, e.health,
                               heap'[player.current_room].npcs[enemy].health)
           /\ (EnemyAttack /\ is_alive(e) /\ e.damage >= 1) =>
                HitWithinRange(e.damage, player.health, player'.health)]_vars

\* one attack, by an alive player of damage 2, that brought the enemy to 0
C10_Witness ==
    /\ pc = "api"
    /\ attacks = 1
    /\ is_alive(player)
    /\ player.damage = 2
    /\ heap[player.current_room].npcs[enemy].health = 0

(***************************************************************************)
(* Properties of Game.combat.                                              *)
(***************************************************************************)
CeilDiv(a, b) == (a + b - 1) \div b

\* ceil(50 / 16) + ceil(100 / 12)
RoundLimit == CeilDiv(50, 16) + CeilDiv(100, 12)

\* the fight is over and the player has won: back at the main menu, alive
\* and untouched by this round, the enemy gone from the room
PlayerWon(room) ==
    /\ pc' = "menu"
    /\ player' = player
    /\ is_alive(player)
    /\ Len(heap'[room].npcs) = Len(heap[room].npcs) - 1
    /\ \A i \in DOMAIN heap'[room].npcs : heap'[room].npcs[i].kind # "Enemy"

\* the fight is over and the player has died, the enemy standing
PlayerDied(room) ==
    /\ pc' = "dead"
    /\ player'.health <= 0
    /\ heap'[room].npcs[enemy].health > 0

\* C11: Player(100, 20) attacking Enemy(50, 15) every round: whatever the
\* draws, the combat loop ends, after at most ceil(50/16) + ceil(100/12)
\* rounds, and it ends won when the enemy's health reached 0 or less first,
\* lost when the player's did; while neither did, the loop goes on
C11_CombatTerminates ==
    /\ [](attacks <= RoundLimit)
    /\ <>(pc # "combat")
    /\ [][CombatAttackAnyDraw =>
            LET room == player.current_room
                e == heap[room].npcs[enemy]
            IN  \/ /\ pc' = "combat"
                   /\ player'.health > 0
                   /\ heap'[room].npcs[enemy].health > 0
                \/ /\ \E dealt \in AttackRange(player.damage) :
                         e.health - dealt <= 0
                   /\ PlayerWon(room)
                \/ PlayerDied(room)]_vars

\* the longest fight: the goblin fell in the fourth round
C11_Witness ==
    /\ pc = "menu"
    /\ attacks = 4
    /\ Len(heap[player.current_room].npcs) = 1
    /\ is_alive(player)
    /\ player.health < 100

\* C12: in a round where the player attacks, the enemy strikes back exactly
\* once if the player's hit left it alive and not at all if the hit killed
\* it; on a flee or an invalid choice nobody is hit
C12_CounterAttackOnce ==
    [][/\ CombatAttack =>
            LET room == player.current_room
                e == heap[room].npcs[enemy]
            IN  \E dealt \in AttackRange(player.damage) :
                   IF e.health - dealt > 0
                   THEN /\ heap'[room].npcs = [heap[room].npcs EXCEPT
                                                 ![enemy].health = @ - dealt]
                        /\ player.health - player'.health
                              \in AttackRange(e.damage)
                        /\ player' = [player EXCEPT !.health = player'.health]
                   ELSE /\ Len(heap'[room].npcs) = Len(heap[room].npcs) - 1
                        /\ player' = player
       /\ (CombatFlee \/ CombatInvalid) =>
            /\ player' = player
            /\ heap' = heap]_vars

\* a buffed player met the vampire: one counter-attack for the first round,
\* none for the second, in which the vampire fell
C12_Witness ==
    /\ pc = "menu"
    /\ attacks = 2
    /\ buffs = 1
    /\ player.damage = 30
    /\ player.health \in {130 - 80, 130 - 100}
    /\ \A i \in DOMAIN heap[player.current_room].npcs :
          heap[player.current_room].npcs[i].description # "A dangerous vampire"
    /\ Len(heap[player.current_room].npcs) = 2

\* the list s without its k-th element, the others in their order
WithoutAt(s, k) == SubSeq(s, 1, k - 1) \o SubSeq(s, k + 1, Len(s))

\* C13: when the player's attack brings the enemy to health 0 or less, the
\* fight ends with the player the winner (alive, not hit, out of combat),
\* that enemy is gone from the current room's NPC list, the room's other
\* NPCs stay in their order, and no other room changes
C13_DefeatedEnemyRemoved ==
    [][\A dealt \in AttackRange(player.damage) :
          LET room == player.current_room
              e == heap[room].npcs[enemy]
          IN  (/\ pc = "combat"
               /\ e.health - dealt <= 0
               /\ \E counter \in AttackRange(e.damage) :
                     CombatRound(dealt, counter))
              => /\ pc' = "menu"
                 /\ enemy' = 0
                 /\ player' = player
                 /\ is_alive(player)
                 /\ heap' = [heap EXCEPT ![room].npcs = WithoutAt(@, enemy)]]_vars

\* the vampire fell: the kerstman and the wizard are left, in that order
C13_Witness ==
    /\ pc = "menu"
    /\ enemy = 0
    /\ attacks > 0
    /\ is_alive(player)
    /\ Descriptions(heap[player.current_room].npcs)
          = <<"The kerstman", "A wise old wizard">>
    /\ heap[player.current_room].npcs[2].kind = "Wizard"

\* C14: a flee ends the fight at once, whatever the healths are, and
\* changes nothing: the player, the enemy with the damage it took before,
\* every room's NPC list and the doors are as before, and nobody is hit
C14_FleeChangesNothing ==
    [][CombatFlee =>
          /\ pc' = "menu"
          /\ enemy' = 0
          /\ player' = player
          /\ heap' = heap
          /\ rooms' = rooms
          /\ doors' = doors]_vars

\* the player ran from an enemy after a round of blows: both carry their
\* wounds, the enemy is still in the room
C14_Witness ==
    /\ pc = "menu"
    /\ enemy = 0
    /\ attacks > 0
    /\ player.health < 100
    /\ \E i \in DOMAIN heap[player.current_room].npcs :
          LET npc == heap[player.current_room].npcs[i]
          IN  /\ npc.kind = "Enemy"
              /\ npc.description = "A fierce goblin"
              /\ npc.health < 50
              /\ npc.health > 0

(***************************************************************************)
(* Properties of Combat.attack, take_damage and is_alive.                  *)
(***************************************************************************)
\* C15: attack called on a combatant whose health is 0 or less does
\* nothing: the target keeps its health, no draw is made (so none can
\* fault), and this holds without any check by the caller
C15_DeadAttackerNoEffect ==
    [][/\ (PlayerAttack /\ player.health <= 0) =>
             /\ heap' = heap
             /\ pc' = "api"
       /\ (EnemyAttack /\ heap[player.current_room].npcs[enemy].health <= 0) =>
             /\ player' = player
             /\ pc' = "api"]_vars

\* a player at health 0 and damage 5 attacked twice: the enemy, which
\* would have hit back for 4 or 5, still has its full health
C15_Witness ==
    /\ pc = "api"
    /\ attacks = 2
    /\ player.health = 0
    /\ player.damage = MaxDamage
    /\ heap[player.current_room].npcs[enemy].health = MaxHealth
    /\ heap[player.current_room].npcs[enemy].damage = MaxDamage

\* C16: take_damage(d) takes exactly d from the health of the combatant it
\* is called on and changes nothing else, of that combatant or of anything
\* around it; the health is not stopped at 0 and can go below it
C16_TakeDamageExact ==
    [][\A d \in -1..MaxDamage :
          LET room == player.current_room
          IN  /\ EnemyTakeDamage(d) =>
                   /\ heap'[room].npcs[enemy].health
                         = heap[room].npcs[enemy].health - d
                   /\ heap' = [heap EXCEPT ![room].npcs[enemy].health =
                                 heap'[room].npcs[enemy].health]
                   /\ player' = player
              /\ PlayerTakeDamage(d) =>
                   /\ player'.health = player.health - d
                   /\ player' = [player EXCEPT !.health = player'.health]
                   /\ heap' = heap]_vars

\* one call took an enemy of health 1 below zero
C16_Witness ==
    /\ attacks = 1
    /\ heap[player.current_room].npcs[enemy].health = 1 - MaxDamage
    /\ 1 - MaxDamage < 0

\* the enemies of the rooms of the room table and of the player's room
Enemies ==
    UNION {{heap[a].npcs[i] : i \in {j \in DOMAIN heap[a].npcs :
                                        heap[a].npcs[j].kind = "Enemy"}} :
             a \in DOMAIN heap}

\* C17: whatever happened to them (blows, a wizard's buff, a load), the
\* player and every enemy are alive exactly when their health is above 0,
\* a combatant at exactly 0 being dead; the game goes by that answer: the
\* menu and the fight go on for a player above 0 only, the fight against an
\* enemy above 0 only, and the game is lost at 0 or below
C17_AliveIffPositiveHealth ==
    /\ is_alive(player) <=> player.health > 0
    /\ \A e \in Enemies : is_alive(e) <=> e.health > 0
    /\ pc \in {"menu", "combat"} => player.health > 0
    /\ pc = "combat" => heap[player.current_room].npcs[enemy].health > 0
    /\ pc = "dead" => player.health <= 0

\* the vampire's strongest blow took the player from 100 to exactly 0
C17_Witness ==
    /\ pc = "dead"
    /\ player.health = 0
    /\ ~is_alive(player)
    /\ attacks = 1

(***************************************************************************)
(* Properties of Wizard.give_bonus.                                        *)
(***************************************************************************)
\* C18: each buff adds the wizard's healing_power to the player's health
\* and its bonus_damage to the player's damage, every time it is asked:
\* after k buffs the player of health 100 and damage 20 has
\* 100 + k * healing_power and 20 + k * bonus_damage; nothing else changes,
\* of the player, the rooms, their NPC lists, the enemy or the wizard
C18_BuffAddsEveryTime ==
    /\ [](LET wizard == heap[2].npcs[1]
          IN  /\ player.health = 100 + buffs * wizard.healing_power
              /\ player.damage = 20 + buffs * wizard.bonus_damage)
    /\ [][NextWizard =>
            /\ player' = [player EXCEPT !.health = player'.health,
                                        !.damage = player'.damage]
            /\ heap' = heap
            /\ rooms' = rooms
            /\ doors' = doors]_vars

\* the same wizard asked twice: both gifts counted twice
C18_Witness ==
    /\ buffs = 2
    /\ heap[2].npcs[1].healing_power = MaxHealth
    /\ heap[2].npcs[1].bonus_damage = MaxDamage
    /\ player.health = 100 + 2 * MaxHealth
    /\ player.damage = 20 + 2 * MaxDamage

(***************************************************************************)
(* Properties of Enemy construction.                                       *)
(***************************************************************************)
\* C19: building an Enemy with a health of 0 or less fails with a
\* validation error and no Enemy comes of it; one built with a health above
\* 0 has that health, so every Enemy is alive when it is created
C19_EnemyHealthValidated ==
    /\ [](\A e \in Enemies : e.health > 0 /\ is_alive(e))
    /\ [][\A health \in -1..MaxHealth, damage \in -1..MaxDamage :
             AddEnemy(health, damage) =>
                IF health <= 0
                THEN /\ pc' = "crashed"
                     /\ heap' = heap
                ELSE /\ pc' = "api"
                     /\ Len(heap'[1].npcs) = Len(heap[1].npcs) + 1
                     /\ heap'[1].npcs[Len(heap'[1].npcs)].kind = "Enemy"
                     /\ heap'[1].npcs[Len(heap'[1].npcs)].health = health]_vars

\* one Enemy was built and added, the next was refused
C19_Witness ==
    /\ pc = "crashed"
    /\ Len(heap[1].npcs) = 1
    /\ heap[1].npcs[1].kind = "Enemy"
    /\ is_alive(heap[1].npcs[1])

\* C20: building an Enemy with a damage below 1 fails with a validation
\* error, so every Enemy that exists has a damage of at least 1
C20_EnemyDamageValidated ==
    \A e \in Enemies : e.damage >= 1

(***************************************************************************)
(* Properties of the game session as a whole.                              *)
(***************************************************************************)
\* the Room instances that are entries of the room table
TableRooms == {rooms[i].room : i \in DOMAIN rooms}

\* C21: in every state of a game session, each door in the door list of a
\* room of the room table has a connected_room and an opposite_room that
\* are rooms of the room table; no such door has None for an endpoint
C21_DoorEndpointsInTable ==
    \A a \in TableRooms :
       \A j \in DOMAIN heap[a].doors :
          LET door == doors[heap[a].doors[j]]
          IN  /\ door.connected_room # None
              /\ door.opposite_room # None
              /\ door.connected_room \in TableRooms
              /\ door.opposite_room \in TableRooms

\* a buffed player who went through a door, fought a round and saved: the
\* rooms of the table still list their two doors
C21_Witness ==
    /\ pc = "menu"
    /\ buffs = 1
    /\ attacks = 1
    /\ file.kind = "json"
    /\ file.data = JsonDumpLoad(GameToJSON(rooms, heap, doors, player))
    /\ \A a \in TableRooms : Len(heap[a].doors) = 2
    /\ heap[player.current_room].room_id = 2

\* the QuickLoad of this step decodes the save file into a game
LoadSucceeds == QuickLoad /\ ~LoadFails

\* C22: until a load succeeds the player's current room is the very Room
\* instance the room table holds; a load that succeeds leaves the player in
\* a Room instance of its own, equal in its fields to the room-table entry
\* that carries the same room id but not that instance
C22_LoadedRoomIsSeparate ==
    /\ player.current_room \in TableRooms
    /\ [][(player.current_room \in TableRooms /\ ~LoadSucceeds)
             => player'.current_room \in TableRooms']_vars
    /\ [][LoadSucceeds =>
             LET room == player'.current_room
                 entry == DictGet(rooms', heap'[room].room_id)
             IN  /\ room \notin TableRooms'
                 /\ entry # None
                 /\ entry # room
                 /\ heap'[entry].room_id = heap'[room].room_id]_vars

\* a game that was saved with the player in the second room and loaded:
\* the table has its room 2, and the player stands in another Room 2
C22_Witness ==
    /\ pc = "menu"
    /\ LoadedFromFile
    /\ heap[player.current_room].room_id = 2
    /\ DictGet(rooms, 2) # player.current_room
    /\ heap[DictGet(rooms, 2)] = heap[player.current_room]

\* `choice` is no index of the list s and is not -1, the "stay" answer
OutOfRange(choice, s) == choice # -1 /\ ~(0 <= choice /\ choice < Len(s))

\* C23: a choice that is out of range, in the main menu, the door menu,
\* the NPC menu or the combat menu, changes nothing (the player, every
\* room with its door and NPC lists and every enemy in them, the doors)
\* and is not fatal: the menu that was open takes the next choice
C23_InvalidChoiceHarmless ==
    [][(\/ InvalidChoice
        \/ \E choice \in -2..2 :
              /\ OutOfRange(choice, heap[player.current_room].doors)
              /\ LookForWayOut(choice)
        \/ \E choice \in -2..3 :
              /\ OutOfRange(choice, heap[player.current_room].npcs)
              /\ LookForCompany(choice)
        \/ CombatInvalid)
       => /\ player' = player
          /\ heap' = heap
          /\ rooms' = rooms
          /\ doors' = doors
          /\ pc' = pc
          /\ pc' \in {"menu", "combat"}]_vars

\* a wounded player back at the menu, in a room with doors and company,
\* where a choice can be out of range
C23_Witness ==
    /\ pc = "menu"
    /\ attacks > 0
    /\ player.health < 100
    /\ Len(heap[player.current_room].doors) = 2
    /\ Len(heap[player.current_room].npcs) >= 2

(***************************************************************************)
(* Properties of the attack loop.                                          *)
(***************************************************************************)
\* the loop has exited: its condition is false
LoopExited ==
    ~(is_alive(heap[player.current_room].npcs[enemy]) /\ is_alive(player))

\* C24: the loop in which the player strikes first and the enemy strikes
\* back only if it is still alive never has the player and the enemy both
\* at health 0 or less: when it has exited, exactly one of the two is dead;
\* for Player(150, 30) against Enemy(100, 25) the dead one is the enemy
C24_NeverBothDead ==
    LET e == heap[player.current_room].npcs[enemy]
    IN  /\ ~(player.health <= 0 /\ e.health <= 0)
        /\ LoopExited => (player.health <= 0) # (e.health <= 0)
        /\ (LoopExited /\ player.damage = 30 /\ e.damage = 25)
              => (e.health <= 0 /\ player.health > 0)

\* the test's fight at its end: the dragon is down, the player wounded
C24_Witness ==
    /\ LoopExited
    /\ player.damage = 30
    /\ heap[player.current_room].npcs[enemy].damage = 25
    /\ heap[player.current_room].npcs[enemy].health <= 0
    /\ player.health > 0
    /\ player.health < 150

(***************************************************************************)
(* Properties of Game.main_loop.                                           *)
(***************************************************************************)
\* some NPC of the list npcs is the vampire of Game.__init__
HoldsVampire(npcs) ==
    \E i \in DOMAIN npcs :
       npcs[i].kind = "Enemy" /\ npcs[i].description = "A dangerous vampire"

\* this step is the attack round in which the vampire is defeated
VampireFalls ==
    /\ CombatAttack
    /\ heap[player.current_room].npcs[enemy].description = "A dangerous vampire"
    /\ HoldsVampire(heap[player.current_room].npcs)
    /\ ~HoldsVampire(heap'[player.current_room].npcs)

\* C25: once the player has defeated the vampire in combat, main_loop finds
\* the defeated vampire at the end of that menu turn, stops and reports the
\* win, instead of showing the menu again or reporting the game over
C25_VampireWinDetected ==
    [][VampireFalls => pc' = "won"]_vars

\* the Room at address a has no door and none but plain NPCs
PlainRoom(a) ==
    /\ heap[a].doors = <<>>
    /\ \A i \in DOMAIN heap[a].npcs : heap[a].npcs[i].kind = "NPC"

\* the main menu is open on a world as a load leaves it: the player's room
\* and the rooms of the table are plain
AfterLoad ==
    /\ pc = "menu"
    /\ PlainRoom(player.current_room)
    /\ \A a \in TableRooms : PlainRoom(a)

====
